---- MODULE Spec2Model ----
(***************************************************************************)
(* A model of the reconciliation service: the normalizer, the missing-row  *)
(* matcher and the discrepancy detector of reconcile/services.py, and the  *)
(* job state machine of reconcile/tasks.py and reconcile/views.py.         *)
(*                                                                         *)
(* Cells are tagged values, as pandas holds them:                          *)
(*   [t |-> "str", s |-> <<chars>>]   a text cell                          *)
(*   [t |-> "num", n |-> k]           a numeric cell                       *)
(*   [t |-> "nan"]                    a missing cell (float NaN)           *)
(*   [t |-> "ts",  d |-> k]           a parsed date (Timestamp)            *)
(*   [t |-> "nat"]                    an unparseable date (NaT)            *)
(*   [t |-> "none"]                   Python None, in formatted output     *)
(*   [t |-> "iso", iso |-> k]         the ISO-8601 string of Timestamp k   *)
(* Text is a sequence of one-character strings.                            *)
(***************************************************************************)
EXTENDS Naturals, Sequences, FiniteSets, TLC

VARIABLES
    rawS,       \* pure pipeline: the raw source DataFrame
    rawT,       \* pure pipeline: the raw target DataFrame
    normS,      \* normalize_data(rawS), or NotYet
    normT,      \* normalize_data(rawT), or NotYet
    normTwice,  \* normalize_data(normalize_data(rawS)), or NotYet
    src,        \* normalized source rows handed to reconcile_data
    tgt,        \* normalized target rows handed to reconcile_data
    result,     \* what reconcile_data returned, or NotYet
    stage,      \* position of the pure pipeline
    records,    \* the ReconcilationRecord table: task_id -> row, or NoRecord
    queue,      \* broker: task_id -> number of trigger_reconcilation messages in flight
    workers,    \* worker -> its position in trigger_reconcilation and its local record
    outcome,    \* worker -> what its last trigger_reconcilation returned or raised
    runs,       \* task_id -> number of reconcile_and_save_data calls started
    saves,      \* task_id -> number of times results were written to the record
    delivered   \* task_id -> number of messages ever sent for it

vars == <<rawS, rawT, normS, normT, normTwice, src, tgt, result, stage,
          records, queue, workers, outcome, runs, saves, delivered>>

pureVars == <<rawS, rawT, normS, normT, normTwice, src, tgt, result, stage>>

jobVars == <<records, queue, workers, outcome, runs, saves, delivered>>

(***************************************************************************)
(* Bounds of the model.                                                    *)
(***************************************************************************)
MaxRows == 2

MaxRawRows == 1

MaxDiscSourceRows == 1

MaxDiscTargetRows == 2

MaxWorkers == 2

MaxDeliveries == 2

(***************************************************************************)
(* Cell values.                                                            *)
(***************************************************************************)
NotYet == [t |-> "unset"]

NaN == [t |-> "nan"]

NaT == [t |-> "nat"]

None == [t |-> "none"]

Str(s) == [t |-> "str", s |-> s]

Num(n) == [t |-> "num", n |-> n]

Ts(d) == [t |-> "ts", d |-> d]

Iso(d) == [t |-> "iso", iso |-> d]

\* pd.notnull / pd.isna on a cell
IsNull(c) == c.t \in {"nan", "nat", "none"}

(***************************************************************************)
(* Text: str.lower() and str.strip() on sequences of characters.           *)
(***************************************************************************)
LowerChar(c) ==
    CASE c = "A" -> "a" [] c = "B" -> "b" [] c = "D" -> "d" [] c = "E" -> "e"
      [] c = "I" -> "i" [] c = "M" -> "m" [] c = "N" -> "n" [] c = "O" -> "o"
      [] c = "T" -> "t" [] c = "U" -> "u" [] OTHER -> c

UpperChar(c) ==
    CASE c = "a" -> "A" [] c = "b" -> "B" [] c = "d" -> "D" [] c = "e" -> "E"
      [] c = "i" -> "I" [] c = "m" -> "M" [] c = "n" -> "N" [] c = "o" -> "O"
      [] c = "t" -> "T" [] c = "u" -> "U" [] OTHER -> c

Lower(s) == [i \in 1..Len(s) |-> LowerChar(s[i])]

Upper(s) == [i \in 1..Len(s) |-> UpperChar(s[i])]

RECURSIVE StripLeft(_)
StripLeft(s) == IF s # <<>> /\ Head(s) = " " THEN StripLeft(Tail(s)) ELSE s

RECURSIVE StripRight(_)
StripRight(s) ==
    IF s # <<>> /\ s[Len(s)] = " " THEN StripRight(SubSeq(s, 1, Len(s) - 1)) ELSE s

\* A strip that removes one blank at each end only.
StripOnce(s) ==
    LET l == IF s # <<>> /\ Head(s) = " " THEN Tail(s) ELSE s
    IN  IF l # <<>> /\ l[Len(l)] = " " THEN SubSeq(l, 1, Len(l) - 1) ELSE l

Strip(s) == StripRight(StripLeft(s))

(***************************************************************************)
(* DataFrames: [columns |-> <<text>>, rows |-> <<<<cell>>>>].              *)
(***************************************************************************)
ColId == <<"i", "d">>

ColName == <<"n", "a", "m", "e">>

ColDate == <<"d", "a", "t", "e">>

ColAmount == <<"a", "m", "o", "u", "n", "t">>

required_columns == <<ColId, ColName, ColDate, ColAmount>>

HasColumn(df, col) == \E j \in 1..Len(df.columns) : df.columns[j] = col

ColumnIndex(df, col) == CHOOSE j \in 1..Len(df.columns) : df.columns[j] = col

\* A cell normalizer whose strip removes one blank at each end only.
NormalizeCellOnce(c) == IF c.t = "str" THEN Str(Lower(StripOnce(c.s))) ELSE c

\* services.py line 70: strip and lowercase every text cell, pass the others through
NormalizeCell(c) == IF c.t = "str" THEN Str(Lower(Strip(c.s))) ELSE c

\* services.py line 73: col.lower().strip()
NormalizeHeader(col) == Strip(Lower(col))

Digit(c) == CASE c = "1" -> 1 [] c = "2" -> 2 [] OTHER -> 0

IsDateText(s) == s # <<>> /\ \A i \in 1..Len(s) : s[i] \in {"1", "2"}

RECURSIVE DateValue(_)
DateValue(s) == IF s = <<>> THEN 0 ELSE 10 * DateValue(SubSeq(s, 1, Len(s) - 1)) + Digit(s[Len(s)])

\* pd.to_datetime(..., errors="coerce") on one cell: text in the recognised
\* format (here: digits) parses, other text and missing cells become NaT, a
\* Timestamp stays what it is, a number counts from the epoch.
ToDatetime(c) ==
    CASE c.t = "str" -> IF IsDateText(c.s) THEN Ts(DateValue(c.s)) ELSE NaT
      [] c.t = "ts" -> c
      [] c.t = "num" -> Ts(c.n)
      [] OTHER -> NaT

KeyError(col) == [type |-> "KeyError", column |-> col, frame |-> "one of the DataFrames"]

MissingColumns(df) == {k \in 1..Len(required_columns) : ~HasColumn(df, required_columns[k])}

normalize_data(dataframe) ==
    LET mapped == [dataframe EXCEPT !.rows =
                      [i \in 1..Len(dataframe.rows) |->
                          [j \in 1..Len(dataframe.rows[i]) |-> NormalizeCell(dataframe.rows[i][j])]]]
        named == [mapped EXCEPT !.columns =
                      [j \in 1..Len(mapped.columns) |-> NormalizeHeader(mapped.columns[j])]]
        missing == MissingColumns(named)
    IN  IF missing # {}
        THEN [ok |-> FALSE,
              error |-> KeyError(required_columns[CHOOSE k \in missing : \A m \in missing : k <= m])]
        ELSE LET d == ColumnIndex(named, ColDate)
             IN  [ok |-> TRUE,
                  df |-> [named EXCEPT !.rows =
                             [i \in 1..Len(named.rows) |->
                                 [named.rows[i] EXCEPT ![d] = ToDatetime(named.rows[i][d])]]]]

\* The four required columns of a normalized DataFrame, row by row: what
\* reconcile_data reads of it (other columns never reach the output).
Frame(df) ==
    [i \in 1..Len(df.rows) |->
        [id |-> df.rows[i][ColumnIndex(df, ColId)],
         name |-> df.rows[i][ColumnIndex(df, ColName)],
         date |-> df.rows[i][ColumnIndex(df, ColDate)],
         amount |-> df.rows[i][ColumnIndex(df, ColAmount)]]]

(***************************************************************************)
(* The matcher: pd.merge(how="left", on=["id", "name"], indicator=True).   *)
(* A left row with k > 0 partners appears k times marked "both", a left    *)
(* row with none appears once marked "left_only"; null keys match null     *)
(* keys; the order of the left rows is kept.                               *)
(***************************************************************************)
\* on: the set of key columns; two rows are partners when they agree on each
SameKey(l, r, on) == \A k \in on : l[k] = r[k]

LeftRows(l, right, on) ==
    LET partners == SelectSeq(right, LAMBDA r : SameKey(l, r, on))
    IN  IF partners = <<>>
        THEN <<[id |-> l.id, name |-> l.name, date_x |-> l.date, amount_x |-> l.amount,
                date_y |-> NaT, amount_y |-> NaN, indicator |-> "left_only"]>>
        ELSE [k \in 1..Len(partners) |->
                [id |-> l.id, name |-> l.name, date_x |-> l.date, amount_x |-> l.amount,
                 date_y |-> partners[k].date, amount_y |-> partners[k].amount,
                 indicator |-> "both"]]

RECURSIVE MergeLeft(_, _, _)
MergeLeft(left, right, on) ==
    IF left = <<>> THEN <<>>
    ELSE LeftRows(Head(left), right, on) \o MergeLeft(Tail(left), right, on)

\* lambda x: x.isoformat() if pd.notnull(x) else None
IsoOrNone(x) == IF ~IsNull(x) THEN Iso(x.d) ELSE None

format_missing_data(missing_df) ==
    [i \in 1..Len(missing_df) |->
        [id |-> missing_df[i].id, name |-> missing_df[i].name,
         date |-> IsoOrNone(missing_df[i].date_x), amount |-> missing_df[i].amount_x]]

\* The matcher joined on id alone.
find_missing_on_id(target_df, source_df) ==
    format_missing_data(SelectSeq(MergeLeft(target_df, source_df, {"id"}),
                                  LAMBDA m : m.indicator = "left_only"))

find_missing_in_target(target_df, source_df) ==
    format_missing_data(SelectSeq(MergeLeft(target_df, source_df, {"id", "name"}),
                                  LAMBDA m : m.indicator = "left_only"))

(***************************************************************************)
(* The discrepancy detector: pd.merge(on=["id"]) (an inner join that keeps *)
(* the order of the left rows), the != mask, and the formatting.           *)
(***************************************************************************)
InnerRows(l, right) ==
    LET partners == SelectSeq(right, LAMBDA r : SameKey(l, r, {"id"}))
    IN  [k \in 1..Len(partners) |->
            [id |-> l.id,
             name_source |-> l.name, name_target |-> partners[k].name,
             date_source |-> l.date, date_target |-> partners[k].date,
             amount_source |-> l.amount, amount_target |-> partners[k].amount]]

RECURSIVE MergeInner(_, _)
MergeInner(left, right) ==
    IF left = <<>> THEN <<>>
    ELSE InnerRows(Head(left), right) \o MergeInner(Tail(left), right)

\* Series != Series, elementwise: a null on either side compares as different.
SeriesNe(a, b) == IsNull(a) \/ IsNull(b) \/ a # b

\* Python == on the values of a record dict: NaN (and NaT) equal nothing, not
\* even themselves; None equals None.
PyEq(a, b) == IF a.t \in {"nan", "nat"} \/ b.t \in {"nan", "nat"} THEN FALSE ELSE a = b

Mask(m) ==
    \/ SeriesNe(m.name_source, m.name_target)
    \/ SeriesNe(m.date_source, m.date_target)
    \/ SeriesNe(m.amount_source, m.amount_target)

FilteredDiscrepancies(source, target) == SelectSeq(MergeInner(source, target), Mask)

TargetKey(key) ==
    CASE key = "name" -> "target_name" [] key = "date" -> "target_date"
      [] key = "amount" -> "target_amount"

\* lines 288-290: drop a field and its target_ twin when the two compare equal
Prune(discrepancy, key) ==
    IF PyEq(discrepancy[key], discrepancy[TargetKey(key)])
    THEN [k \in (DOMAIN discrepancy) \ {key, TargetKey(key)} |-> discrepancy[k]]
    ELSE discrepancy

FormatDiscrepancy(m) ==
    LET discrepancy == [id |-> m.id,
                        name |-> m.name_source, target_name |-> m.name_target,
                        date |-> IsoOrNone(m.date_source),
                        target_date |-> IsoOrNone(m.date_target),
                        amount |-> m.amount_source, target_amount |-> m.amount_target]
    IN  Prune(Prune(Prune(discrepancy, "name"), "date"), "amount")

format_discrepancies(discrepancies_df) ==
    [i \in 1..Len(discrepancies_df) |-> FormatDiscrepancy(discrepancies_df[i])]

\* A detector that joins on id and name, as the matcher does.
find_discrepancies_on_id_name(source, target) ==
    format_discrepancies(SelectSeq(FilteredDiscrepancies(source, target),
                                   LAMBDA m : m.name_source = m.name_target))

find_discrepancies(source, target) ==
    format_discrepancies(FilteredDiscrepancies(source, target))

reconcile_data(normalized_source_df, normalized_target_df) ==
    [missing_data_in_target_file |-> find_missing_in_target(normalized_source_df, normalized_target_df),
     missing_data_in_source_file |-> find_missing_in_target(normalized_target_df, normalized_source_df),
     discrepancies |-> find_discrepancies(normalized_source_df, normalized_target_df)]

(***************************************************************************)
(* Inputs of the pure pipeline.                                            *)
(***************************************************************************)
Datasets(rows, n) == UNION {[1..k -> rows] : k \in 0..n}

IdCells == {Num(1), Num(2)}

NameCells == {Str(<<"a">>), Str(<<"b">>)}

\* Rows that vary in their key and in whether the date parsed.
KeyRows == [id : IdCells, name : NameCells, date : {Ts(1), NaT}, amount : {Num(1)}]

\* Rows that vary in every field, nulls included (an empty CSV cell is NaN).
FieldRows ==
    [id : IdCells, name : NameCells \cup {NaN}, date : {Ts(1), Ts(2), NaT},
     amount : {Num(1), Num(2), NaN}]

\* Raw text as a CSV file may hold it: the same text in another case, or padded.
Styles == {"asis", "upper", "padded", "upperpadded"}

StyleText(s, style) ==
    CASE style = "asis" -> s
      [] style = "upper" -> Upper(s)
      [] style = "padded" -> <<" ", " ">> \o s \o <<" ">>
      [] style = "upperpadded" -> <<" ">> \o Upper(s) \o <<" ", " ">>

StyleCell(c, style) == IF c.t = "str" THEN Str(StyleText(c.s, style)) ELSE c

OtherColumn == <<"b">>

\* The four required headers, or three of them beside an unrelated column.
HeaderLists == {required_columns} \cup
               {[required_columns EXCEPT ![k] = OtherColumn] : k \in 1..Len(required_columns)}

RawRows ==
    {<<i, n, d, a>> : i \in IdCells, n \in {Str(<<"a">>), Str(<<"a", " ", "b">>)},
                      d \in {Str(<<"1">>), Str(<<"b">>), NaN}, a \in {Num(1), NaN}}

Styled(headers, rows, style) ==
    [columns |-> [j \in 1..Len(headers) |-> StyleText(headers[j], style)],
     rows |-> [i \in 1..Len(rows) |-> [j \in 1..Len(rows[i]) |-> StyleCell(rows[i][j], style)]]]

NoFrame == [columns |-> <<>>, rows |-> <<>>]

(***************************************************************************)
(* The job table at rest, for the specifications of the pure pipeline.     *)
(***************************************************************************)
TaskIds == {"t1"}

Workers == 1..MaxWorkers

NoRecord == [status |-> "NONE"]

Idle == [pc |-> "idle"]

JobInit ==
    /\ records = [t \in TaskIds |-> NoRecord]
    /\ queue = [t \in TaskIds |-> 0]
    /\ workers = [w \in Workers |-> Idle]
    /\ outcome = [w \in Workers |-> NotYet]
    /\ runs = [t \in TaskIds |-> 0]
    /\ saves = [t \in TaskIds |-> 0]
    /\ delivered = [t \in TaskIds |-> 0]

(***************************************************************************)
(* reconcile_data on two normalized datasets (services.py lines 168-187).  *)
(***************************************************************************)
Reconcile ==
    /\ stage = "normalized"
    /\ result' = reconcile_data(src, tgt)
    /\ stage' = "reconciled"
    /\ UNCHANGED <<rawS, rawT, normS, normT, normTwice, src, tgt>>
    /\ UNCHANGED jobVars

InitRecon ==
    /\ src \in Datasets(KeyRows, MaxRows)
    /\ tgt \in Datasets(KeyRows, MaxRows)
    /\ rawS = NoFrame /\ rawT = NoFrame
    /\ normS = NotYet /\ normT = NotYet /\ normTwice = NotYet
    /\ result = NotYet
    /\ stage = "normalized"
    /\ JobInit

SpecRecon == InitRecon /\ [][Reconcile]_vars

\* The dtype pandas gives a name column: float64 when every cell is missing,
\* object when any cell is text.
NameDtype(frame) ==
    IF frame = <<>> THEN "empty"
    ELSE IF \A i \in 1..Len(frame) : frame[i].name = NaN THEN "float64" ELSE "object"

\* pd.merge on "name" refuses a float64 key column against a text one (it
\* raises ValueError before any row is matched); reconcile_data returns a
\* result only for the other pairs of frames.
Mergeable(left, right) == {NameDtype(left), NameDtype(right)} # {"float64", "object"}

InitDisc ==
    /\ src \in Datasets(FieldRows, MaxDiscSourceRows)
    /\ tgt \in Datasets(FieldRows, MaxDiscTargetRows)
    /\ Mergeable(src, tgt)
    /\ rawS = NoFrame /\ rawT = NoFrame
    /\ normS = NotYet /\ normT = NotYet /\ normTwice = NotYet
    /\ result = NotYet
    /\ stage = "normalized"
    /\ JobInit

SpecDisc == InitDisc /\ [][Reconcile]_vars

(***************************************************************************)
(* The pipeline of reconcile_and_save_data on raw frames (lines 50-53):    *)
(* normalize the source, normalize the target, reconcile. The target is    *)
(* the source's content in another case and padding.                       *)
(***************************************************************************)
NormalizeSource ==
    /\ stage = "raw"
    /\ normS' = normalize_data(rawS)
    /\ stage' = "source"
    /\ UNCHANGED <<rawS, rawT, normT, normTwice, src, tgt, result>>
    /\ UNCHANGED jobVars

NormalizeTarget ==
    /\ stage = "source"
    /\ normS.ok
    /\ normT' = normalize_data(rawT)
    /\ stage' = "both"
    /\ UNCHANGED <<rawS, rawT, normS, normTwice, src, tgt, result>>
    /\ UNCHANGED jobVars

ReconcileNormalized ==
    /\ stage = "both"
    /\ normT.ok
    /\ src' = Frame(normS.df)
    /\ tgt' = Frame(normT.df)
    /\ result' = reconcile_data(Frame(normS.df), Frame(normT.df))
    /\ stage' = "reconciled"
    /\ UNCHANGED <<rawS, rawT, normS, normT, normTwice>>
    /\ UNCHANGED jobVars

\* normalize_data applied to its own output
NormalizeAgain ==
    /\ stage # "raw"
    /\ normS.ok
    /\ normTwice = NotYet
    /\ normTwice' = normalize_data(normS.df)
    /\ UNCHANGED <<rawS, rawT, normS, normT, src, tgt, result, stage>>
    /\ UNCHANGED jobVars

InitNorm ==
    /\ \E headers \in HeaderLists, rows \in Datasets(RawRows, MaxRawRows),
          styleS \in Styles, styleT \in Styles :
          /\ rawS = Styled(headers, rows, styleS)
          /\ rawT = Styled(headers, rows, styleT)
    /\ normS = NotYet /\ normT = NotYet /\ normTwice = NotYet
    /\ src = <<>> /\ tgt = <<>>
    /\ result = NotYet
    /\ stage = "raw"
    /\ JobInit

NextNorm == NormalizeSource \/ NormalizeTarget \/ ReconcileNormalized \/ NormalizeAgain

SpecNorm == InitNorm /\ [][NextNorm]_vars

(***************************************************************************)
(* The job: CSVUploadAPIView.post creates a record and sends one           *)
(* trigger_reconcilation message; a worker takes a message, reads the      *)
(* record, and runs reconcile_and_save_data on its copy of it.             *)
(***************************************************************************)
CsvFile(frame) == [kind |-> "csv", frame |-> frame]

\* A file pd.read_csv cannot tokenize: it raises ParserError, a ValueError.
MalformedFile == [kind |-> "malformed"]

GoodRows == <<<<Num(1), Str(<<"a">>), Str(<<"1">>), Num(1)>>>>

OtherRows == <<<<Num(1), Str(<<"b">>), Str(<<"b">>), NaN>>>>

Uploads ==
    {CsvFile(Styled(required_columns, GoodRows, "upperpadded")),
     CsvFile(Styled(required_columns, OtherRows, "asis")),
     CsvFile(Styled([required_columns EXCEPT ![4] = OtherColumn], GoodRows, "padded")),
     CsvFile(Styled([required_columns EXCEPT ![1] = OtherColumn, ![3] = OtherColumn],
                    GoodRows, "upper")),
     MalformedFile}

JsonNull == [json |-> "null"]

JsonList(items) == [json |-> "list", items |-> items]

\* ReconcilationRecord.objects.create: the model's defaults (models.py 8-17)
create_record(source_file, target_file) ==
    [source_file |-> source_file, target_file |-> target_file,
     status |-> "PROCESSING",
     missing_data_in_source_file |-> JsonNull,
     missing_data_in_target_file |-> JsonNull,
     discrepancies |-> JsonNull]

\* An update that leaves the discrepancies out of what it writes.
update_record_partial(data, record) ==
    [key \in DOMAIN record |->
        IF key \in (DOMAIN data) \ {"discrepancies"} THEN data[key] ELSE record[key]]

\* setattr for every key of data, then one save() of the whole row
update_record(data, record) ==
    [key \in DOMAIN record |-> IF key \in DOMAIN data THEN data[key] ELSE record[key]]

ParserError == [type |-> "ValueError", column |-> <<>>, frame |-> "ParserError"]

\* normalize_data(pd.read_csv(file))
ReadAndNormalize(file) ==
    IF file.kind = "malformed" THEN [ok |-> FALSE, error |-> ParserError]
    ELSE normalize_data(file.frame)

\* The body of reconcile_and_save_data up to the save: the error it raises, or
\* the data it hands to update_record.
reconcile_and_save_data(record) ==
    LET source == ReadAndNormalize(record.source_file)
        target == ReadAndNormalize(record.target_file)
    IN  IF ~source.ok THEN [ok |-> FALSE, error |-> source.error]
        ELSE IF ~target.ok THEN [ok |-> FALSE, error |-> target.error]
        ELSE LET reconciled_data == reconcile_data(Frame(source.df), Frame(target.df))
             IN  [ok |-> TRUE,
                  data |-> [missing_data_in_target_file |->
                                JsonList(reconciled_data.missing_data_in_target_file),
                            missing_data_in_source_file |->
                                JsonList(reconciled_data.missing_data_in_source_file),
                            discrepancies |-> JsonList(reconciled_data.discrepancies),
                            status |-> "SUCCESS"]]

\* tasks.py 9-18; the misspelt "sucess" is the code's
generate_result(message, status, error) ==
    [status |-> IF status THEN "sucess" ELSE "failed", message |-> message, error |-> error]

NoError == [type |-> "none", column |-> <<>>, frame |-> ""]

Returned(t, value) == [task_id |-> t, kind |-> "returned", value |-> value]

Raised(t, error) ==
    [task_id |-> t, kind |-> "raised",
     value |-> [status |-> "raised", message |-> "", error |-> error]]

\* An error handler that catches every exception.
CaughtAny(error) == TRUE

\* except ValueError (tasks.py 43): a KeyError is not a ValueError
Caught(error) == error.type = "ValueError"

\* views.py 26-31: create the record, then trigger_reconcilation.delay(task_id)
Upload(t, source_file, target_file) ==
    /\ records[t] = NoRecord
    /\ delivered[t] < MaxDeliveries
    /\ records' = [records EXCEPT ![t] = create_record(source_file, target_file)]
    /\ queue' = [queue EXCEPT ![t] = @ + 1]
    /\ delivered' = [delivered EXCEPT ![t] = @ + 1]
    /\ UNCHANGED <<workers, outcome, runs, saves>>
    /\ UNCHANGED pureVars

\* One more trigger_reconcilation message for a task id: a duplicate delivery
\* by the broker, a retry, or a call for an id that has no record.
Redeliver(t) ==
    /\ delivered[t] < MaxDeliveries
    /\ queue' = [queue EXCEPT ![t] = @ + 1]
    /\ delivered' = [delivered EXCEPT ![t] = @ + 1]
    /\ UNCHANGED <<records, workers, outcome, runs, saves>>
    /\ UNCHANGED pureVars

\* tasks.py 32-35: no record with this task_id
TriggerNotFound(w, t) ==
    /\ workers[w].pc = "idle"
    /\ queue[t] > 0
    /\ records[t] = NoRecord
    /\ queue' = [queue EXCEPT ![t] = @ - 1]
    /\ outcome' = [outcome EXCEPT ![w] =
                      Returned(t, generate_result("does not exist", FALSE, NoError))]
    /\ UNCHANGED <<records, workers, runs, saves, delivered>>
    /\ UNCHANGED pureVars

\* tasks.py 37-38: the record read is no longer PROCESSING
TriggerAlreadyProcessed(w, t) ==
    /\ workers[w].pc = "idle"
    /\ queue[t] > 0
    /\ records[t] # NoRecord
    /\ records[t].status # "PROCESSING"
    /\ queue' = [queue EXCEPT ![t] = @ - 1]
    /\ outcome' = [outcome EXCEPT ![w] =
                      Returned(t, generate_result("already processed", TRUE, NoError))]
    /\ UNCHANGED <<records, workers, runs, saves, delivered>>
    /\ UNCHANGED pureVars

\* tasks.py 33, 37, 41: the record is read, found PROCESSING, and kept by the worker
TriggerBegin(w, t) ==
    /\ workers[w].pc = "idle"
    /\ queue[t] > 0
    /\ records[t] # NoRecord
    /\ records[t].status = "PROCESSING"
    /\ queue' = [queue EXCEPT ![t] = @ - 1]
    /\ workers' = [workers EXCEPT ![w] = [pc |-> "reconcile", task_id |-> t, record |-> records[t]]]
    /\ outcome' = [outcome EXCEPT ![w] = NotYet]
    /\ UNCHANGED <<records, runs, saves, delivered>>
    /\ UNCHANGED pureVars

\* tasks.py 42, 46: reconcile_and_save_data runs to its end, saving the worker's row
TriggerSaves(w) ==
    /\ workers[w].pc = "reconcile"
    /\ LET t == workers[w].task_id
           run == reconcile_and_save_data(workers[w].record)
       IN  /\ run.ok
           /\ records' = [records EXCEPT ![t] = update_record(run.data, workers[w].record)]
           /\ runs' = [runs EXCEPT ![t] = @ + 1]
           /\ saves' = [saves EXCEPT ![t] = @ + 1]
           /\ outcome' = [outcome EXCEPT ![w] =
                             Returned(t, generate_result("processed and saved", TRUE, NoError))]
    /\ workers' = [workers EXCEPT ![w] = Idle]
    /\ UNCHANGED <<queue, delivered>>
    /\ UNCHANGED pureVars

\* tasks.py 43-44: reconcile_and_save_data raises an error the handler catches
TriggerCatches(w) ==
    /\ workers[w].pc = "reconcile"
    /\ LET t == workers[w].task_id
           run == reconcile_and_save_data(workers[w].record)
       IN  /\ ~run.ok
           /\ Caught(run.error)
           /\ runs' = [runs EXCEPT ![t] = @ + 1]
           /\ outcome' = [outcome EXCEPT ![w] =
                             Returned(t, generate_result("an error occurred", FALSE, run.error))]
    /\ workers' = [workers EXCEPT ![w] = Idle]
    /\ UNCHANGED <<records, queue, saves, delivered>>
    /\ UNCHANGED pureVars

\* tasks.py 42: reconcile_and_save_data raises an error the handler does not
\* catch; the task ends with that exception
TriggerRaises(w) ==
    /\ workers[w].pc = "reconcile"
    /\ LET t == workers[w].task_id
           run == reconcile_and_save_data(workers[w].record)
       IN  /\ ~run.ok
           /\ ~Caught(run.error)
           /\ runs' = [runs EXCEPT ![t] = @ + 1]
           /\ outcome' = [outcome EXCEPT ![w] = Raised(t, run.error)]
    /\ workers' = [workers EXCEPT ![w] = Idle]
    /\ UNCHANGED <<records, queue, saves, delivered>>
    /\ UNCHANGED pureVars

Init ==
    /\ JobInit
    /\ rawS = NoFrame /\ rawT = NoFrame
    /\ normS = NotYet /\ normT = NotYet /\ normTwice = NotYet
    /\ src = <<>> /\ tgt = <<>>
    /\ result = NotYet
    /\ stage = "idle"

Next ==
    \/ \E t \in TaskIds, source_file \in Uploads, target_file \in Uploads :
          Upload(t, source_file, target_file)
    \/ \E t \in TaskIds : Redeliver(t)
    \/ \E w \in Workers, t \in TaskIds : TriggerNotFound(w, t)
    \/ \E w \in Workers, t \in TaskIds : TriggerAlreadyProcessed(w, t)
    \/ \E w \in Workers, t \in TaskIds : TriggerBegin(w, t)
    \/ \E w \in Workers : TriggerSaves(w)
    \/ \E w \in Workers : TriggerCatches(w)
    \/ \E w \in Workers : TriggerRaises(w)

Spec == Init /\ [][Next]_vars

(***************************************************************************)
(* What the claims speak of, stated without the merges of the code.        *)
(***************************************************************************)
\* A date as the output carries it: an ISO-8601 string, or null.
Rendered(d) == IF d.t = "ts" THEN Iso(d.d) ELSE None

\* The pairs (i, j) of a source row and a target row with the same id.
JoinedPairs == {p \in (1..Len(src)) \X (1..Len(tgt)) : src[p[1]].id = tgt[p[2]].id}

\* A field differs when its two values are not the same value; two nulls are the same.
DiffersIn(p, field) == src[p[1]][field] # tgt[p[2]][field]

Identical(p) == \A field \in {"name", "date", "amount"} : ~DiffersIn(p, field)

HasPartnerIn(r, other) ==
    \E j \in 1..Len(other) : other[j].id = r.id /\ other[j].name = r.name

UnmatchedRows(have, want) ==
    LET kept == SelectSeq(have, LAMBDA r : ~HasPartnerIn(r, want))
    IN  [i \in 1..Len(kept) |->
            [id |-> kept[i].id, name |-> kept[i].name,
             date |-> Rendered(kept[i].date), amount |-> kept[i].amount]]

ExpectedEntry(p) ==
    LET s == src[p[1]]
        t == tgt[p[2]]
        full == [id |-> s.id, name |-> s.name, target_name |-> t.name,
                 date |-> Rendered(s.date), target_date |-> Rendered(t.date),
                 amount |-> s.amount, target_amount |-> t.amount]
        keys == {"id"}
                \cup (IF DiffersIn(p, "name") THEN {"name", "target_name"} ELSE {})
                \cup (IF DiffersIn(p, "date") THEN {"date", "target_date"} ELSE {})
                \cup (IF DiffersIn(p, "amount") THEN {"amount", "target_amount"} ELSE {})
    IN  [k \in keys |-> full[k]]

\* C2: for every joined pair with at least one differing field, the entry
\* returned holds id and, for each of name, date, amount, both keys of the field
\* exactly when the field differs; a field equal on both sides (two nulls
\* included) is not in the entry.
C2_ExactlyDifferingFields ==
    stage = "reconciled" =>
        \A p \in JoinedPairs :
            ~Identical(p) =>
                \E k \in 1..Len(result.discrepancies) :
                    /\ DOMAIN result.discrepancies[k] = DOMAIN ExpectedEntry(p)
                    /\ \A key \in DOMAIN ExpectedEntry(p) :
                          result.discrepancies[k][key] = ExpectedEntry(p)[key]

\* C3: every discrepancy entry carries at least one differing field pair; an
\* entry of id alone is never emitted.
C3_NoEmptyEntry ==
    stage = "reconciled" =>
        \A k \in 1..Len(result.discrepancies) : DOMAIN result.discrepancies[k] # {"id"}

OneSideNullDate(p) ==
    (src[p[1]].date = NaT) # (tgt[p[2]].date = NaT)

\* Identical in name, date and amount, with a name and an amount present.
IdenticalWithValues(p) ==
    /\ Identical(p)
    /\ src[p[1]].name # NaN
    /\ src[p[1]].amount # NaN

\* C4: a joined pair with identical name, date and amount (two null dates being
\* equal) yields no entry, so there are no more entries than the other joined
\* pairs; and a pair whose date is null on one side only yields an entry that
\* carries date and target_date.
C4_IdenticalPairsSilent ==
    stage = "reconciled" =>
        /\ Len(result.discrepancies) <= Cardinality({p \in JoinedPairs : ~IdenticalWithValues(p)})
        /\ \A p \in JoinedPairs :
              OneSideNullDate(p) =>
                  \E k \in 1..Len(result.discrepancies) :
                      /\ result.discrepancies[k].id = src[p[1]].id
                      /\ {"date", "target_date"} \subseteq DOMAIN result.discrepancies[k]
                      /\ result.discrepancies[k].date = Rendered(src[p[1]].date)
                      /\ result.discrepancies[k].target_date = Rendered(tgt[p[2]].date)

\* C9: two raw datasets that differ only by letter case or surrounding blanks
\* normalize to equal datasets, and reconciling one against the other reports
\* no missing row either way and no discrepancy.
C9_CaseAndBlankInvariance ==
    stage = "reconciled" =>
        /\ normS = normT
        /\ result.missing_data_in_target_file = <<>>
        /\ result.missing_data_in_source_file = <<>>
        /\ result.discrepancies = <<>>

\* C10: normalize_data is idempotent: applied to its own output it returns the
\* same column names, the same cells and the same row order, null dates included.
C10_NormalizeIdempotent ==
    normTwice # NotYet => normTwice.ok /\ normTwice.df = normS.df

\* A padded, upper-case frame with an unparseable date, normalized twice.
C10_Witness ==
    /\ normTwice # NotYet
    /\ normS.ok
    /\ normS.df # rawS
    /\ Len(normS.df.rows) = 1
    /\ normS.df.rows[1][ColumnIndex(normS.df, ColDate)] = NaT
    /\ rawS.rows[1][2] = Str(<<" ", "A", " ", "B", " ", " ">>)

\* A row as a missing list carries it is somewhere in the list.
ReportedIn(r, list) ==
    \E i \in 1..Len(list) :
        list[i] = [id |-> r.id, name |-> r.name, date |-> Rendered(r.date), amount |-> r.amount]

NameMismatch(p) == src[p[1]].name # tgt[p[2]].name

HasNameEntry(p) ==
    \E k \in 1..Len(result.discrepancies) :
        /\ result.discrepancies[k].id = src[p[1]].id
        /\ {"name", "target_name"} \subseteq DOMAIN result.discrepancies[k]
        /\ result.discrepancies[k].name = src[p[1]].name
        /\ result.discrepancies[k].target_name = tgt[p[2]].name

\* C11 as amended: a source row and a target row with the same id and different
\* names are reported as a discrepancy entry for that id carrying name and
\* target_name; besides, the source row is listed in missing_data_in_target_file
\* exactly when no target row has its (id, name), and the target row in
\* missing_data_in_source_file exactly when no source row has its (id, name).
C11_MismatchReportedTwice ==
    stage = "reconciled" =>
        \A p \in JoinedPairs :
            NameMismatch(p) =>
                /\ HasNameEntry(p)
                /\ ReportedIn(src[p[1]], result.missing_data_in_target_file)
                       <=> ~HasPartnerIn(src[p[1]], tgt)
                /\ ReportedIn(tgt[p[2]], result.missing_data_in_source_file)
                       <=> ~HasPartnerIn(tgt[p[2]], src)

\* One source row and one target row, same id, names a and b: a discrepancy
\* entry, and each row listed as missing on the other side.
C11_Witness ==
    /\ stage = "reconciled"
    /\ Len(src) = 1 /\ Len(tgt) = 1
    /\ src[1].id = tgt[1].id
    /\ src[1].name # tgt[1].name
    /\ HasNameEntry(<<1, 1>>)
    /\ Len(result.missing_data_in_target_file) = 1
    /\ Len(result.missing_data_in_source_file) = 1

\* C11: a source row and a target row with the same id and different names are
\* reported as a discrepancy entry carrying name and target_name, and neither
\* row is listed as a missing row.
C11_MismatchNotMissing ==
    stage = "reconciled" =>
        \A p \in JoinedPairs :
            NameMismatch(p) =>
                /\ HasNameEntry(p)
                /\ ~ReportedIn(src[p[1]], result.missing_data_in_target_file)
                /\ ~ReportedIn(tgt[p[2]], result.missing_data_in_source_file)

(***************************************************************************)
(* Claims about the job.                                                   *)
(***************************************************************************)
ResultFields == {"missing_data_in_source_file", "missing_data_in_target_file", "discrepancies"}

\* The required columns a CSV file lacks once its headers are trimmed and lowercased.
LackedBy(file) ==
    IF file.kind # "csv" THEN {}
    ELSE {k \in 1..Len(required_columns) :
             \A j \in 1..Len(file.frame.columns) :
                 Strip(Lower(file.frame.columns[j])) # required_columns[k]}

FirstLacked(file) == required_columns[CHOOSE k \in LackedBy(file) : \A m \in LackedBy(file) : k <= m]

\* The dataset whose missing column stops the run of a record: the source, or
\* the target when the source was read and normalized.
Culprit(record) ==
    IF LackedBy(record.source_file) # {} THEN "source"
    ELSE IF record.source_file.kind = "csv" /\ LackedBy(record.target_file) # {} THEN "target"
    ELSE "none"

CulpritFile(record) ==
    IF Culprit(record) = "source" THEN record.source_file ELSE record.target_file

\* A worker's last trigger_reconcilation ended, and it had found the record.
Ended(w) ==
    /\ outcome[w] # NotYet
    /\ outcome[w].value.message # "does not exist"

EndedInError(w) ==
    /\ Ended(w)
    /\ outcome[w].value.status # "sucess"

\* C5: when a run of trigger_reconcilation ends in an error (a required column
\* missing, or a file that does not parse), the record ends FAILED; when it
\* completes, the record ends SUCCESS.
C5_StatusFollowsOutcome ==
    \A w \in Workers :
        /\ EndedInError(w) => records[outcome[w].task_id].status = "FAILED"
        /\ (Ended(w) /\ outcome[w].value.message = "processed and saved") =>
               records[outcome[w].task_id].status = "SUCCESS"

\* C6: reconcile_and_save_data runs at most once for a record, and its results
\* are written at most once, whatever the deliveries and their interleaving.
C6_AtMostOneRun == \A t \in TaskIds : runs[t] <= 1 /\ saves[t] <= 1

C7_Fields ==
    \A t \in TaskIds :
        records[t] # NoRecord =>
            /\ records[t].status = "SUCCESS" <=> \A f \in ResultFields : records[t][f] # JsonNull
            /\ records[t].status \in {"PROCESSING", "FAILED"} =>
                   \A f \in ResultFields : records[t][f] = JsonNull

C7_FailedRunKeeps ==
    \A w \in Workers :
        (outcome'[w] # outcome[w] /\ outcome'[w] # NotYet /\ outcome'[w].value.status # "sucess")
            => records' = records

\* C7: the stored result is all-or-nothing: the three result fields of a record
\* are all set exactly when its status is SUCCESS and all null while it is
\* PROCESSING or FAILED, and a run that fails leaves the record as it was.
C7_AllOrNothing == []C7_Fields /\ [][C7_FailedRunKeeps]_vars

\* A record saved twice, by two runs, with a discrepancy and a missing row stored.
C7_Witness ==
    \E t \in TaskIds :
        /\ records[t] # NoRecord
        /\ records[t].status = "SUCCESS"
        /\ saves[t] = 2
        /\ records[t].discrepancies # JsonList(<<>>)
        /\ records[t].discrepancies # JsonNull

====
